---- MODULE Spec2Model ----
(***************************************************************************)
(* A model of mdio/variable.h: the Variable handle over a chunked array,   *)
(* its label-aware slicing (Variable::slice, LabeledArray::slice), the     *)
(* shared attribute cell (UpdateAttributes / was_updated) and the          *)
(* publication of the ".zattrs" side-document (PublishMetadata).           *)
(*                                                                         *)
(* Every operation is one call: it requires that no result is pending,     *)
(* records its arguments in `call` and its result in `ret`; the caller     *)
(* then binds the returned value to a handle or drops it.                  *)
(***************************************************************************)
EXTENDS Integers, Sequences, FiniteSets, TLC

VARIABLES
    vars,      \* the Variable handles the program holds
    cells,     \* attribute cells: the inner shared_ptr of each outer handle
    heap,      \* the UserAttributes object at each address (NoObject: free)
    zattrs,    \* the side-document at the object an open reads (NoValue: none)
    kvs,       \* the rest of the store: driver, path, array, chunk data, the
               \* document at any other object, the last side-document access
    fut,       \* the futures of the create in flight
    thr,       \* the threads that call into one attribute cell concurrently
    snap,      \* the VariableData produced by the last Read (NoValue: none)
    hist,      \* history, per Open: whether an update was installed, and the last value
    call,      \* the operation called last and its arguments
    ret        \* its result: status, returned value, error details

vars_all == <<vars, cells, heap, zattrs, kvs, fut, thr, snap, hist, call, ret>>

----------------------------------------------------------------------------
(* Bounds of the model.                                                    *)

MaxVars == 2          \* handles held at once
MaxCells == 2         \* attribute cells (one per Open)
MaxAddr == 3          \* heap addresses a UserAttributes object can take
InlineExt == 3        \* extent of dimension "inline" in the store
CrosslineExt == 2     \* extent of dimension "crossline" in the store
BelowOrigin == 1      \* how far below 0 a descriptor's bounds may lie
MaxIdx == 4           \* the largest descriptor bound
MaxValue == 2         \* the largest value the array's data takes
MaxThreads == 2       \* threads that call into one attribute cell at once

Index == (0 - BelowOrigin)..MaxIdx
Steps == {1, 2}
Addr == 1..MaxAddr

----------------------------------------------------------------------------
(* JSON objects are functions from keys to values.                         *)

EmptyObj == [k \in {} |-> k]
Contains(j, k) == k \in DOMAIN j
Erase(j, k) == [x \in (DOMAIN j) \ {k} |-> j[x]]
Put(j, k, v) == [x \in (DOMAIN j) \cup {k} |-> IF x = k THEN v ELSE j[x]]

\* the values that are not objects: strings, arrays and null
Str(s) == [str |-> s]
Arr(a) == [arr |-> a]
Null == [null |-> TRUE]
is_string(v) == DOMAIN v = {"str"}
is_array(v) == DOMAIN v = {"arr"}
is_null(v) == DOMAIN v = {"null"}
is_object(v) == ~is_string(v) /\ ~is_array(v) /\ ~is_null(v)
\* nlohmann::json::empty(): null, or an array or object without elements
empty(v) ==
    IF is_null(v) THEN TRUE
    ELSE IF is_string(v) THEN FALSE
    ELSE IF is_array(v) THEN v.arr = <<>>
    ELSE DOMAIN v = {}

NoValue == [none |-> TRUE]
NoObject == [free |-> TRUE]
NoDesc == [nodesc |-> TRUE]

----------------------------------------------------------------------------
(* Dimension identifiers and slice descriptors.                            *)

\* tensorstore::DimensionIdentifier: a label or a positional index
LabelId(l) == [kind |-> "label", label |-> l, index |-> 0]
IndexId(i) == [kind |-> "index", label |-> "", index |-> i]

SliceDescriptor(l, a, b, s) == [label |-> l, start |-> a, stop |-> b, step |-> s]

\* the domain of the array created in the store: origin 0 in every dimension,
\* no labels (the labels live in the side-document)
StoreDomain ==
    << [label |-> "", origin |-> 0, shape |-> InlineExt],
       [label |-> "", origin |-> 0, shape |-> CrosslineExt] >>

Labels == {"inline", "crossline", "depth"}
DimIds == {LabelId(l) : l \in Labels} \cup {IndexId(0), IndexId(2)}

\* every single descriptor
Descs == {SliceDescriptor(l, a, b, s) : l \in DimIds, a \in Index, b \in Index, s \in Steps}

\* the descriptors that calls with two descriptors combine
PairStarts == {0, 1, 2}
PairStops == {0, 1, 2, 3}
PairDescs ==
    {SliceDescriptor(l, a, b, s) : l \in DimIds, a \in PairStarts, b \in PairStops, s \in Steps}

DescLists == {<<d>> : d \in Descs} \cup {<<d, e>> : d \in PairDescs, e \in PairDescs}

\* the few descriptor lists the whole-program specification slices with
CoreDescLists ==
    { <<SliceDescriptor(LabelId("depth"), 0, 2, 1)>>,
      <<SliceDescriptor(LabelId("inline"), 1, 3, 1)>>,
      <<SliceDescriptor(LabelId("inline"), 0, 2, 2)>>,
      <<SliceDescriptor(LabelId("crossline"), 2, 1, 1)>> }

----------------------------------------------------------------------------
(* The storage engine's dimension selection and interval restriction.      *)

\* tensorstore::Dims({id}).Resolve(domain): the 1-based position, 0 if none
Resolve(domain, id) ==
    IF id.kind = "index"
    THEN IF id.index >= 0 /\ id.index < Len(domain) THEN id.index + 1 ELSE 0
    ELSE IF \E i \in 1..Len(domain) : domain[i].label = id.label
         THEN CHOOSE i \in 1..Len(domain) : domain[i].label = id.label
         ELSE 0

Unique(dims) == \A i, j \in 1..Len(dims) : dims[i] = dims[j] => i = j

\* an interval [a, b) is contained in dimension d (an empty one always is)
ContainedIn(d, a, b) == a = b \/ (d.origin <= a /\ b <= d.origin + d.shape)

\* the status the engine gives a selection with step-1 intervals
IntervalStatus(domain, dims, start, stop) ==
    IF \E i \in 1..Len(dims) : dims[i] = 0 THEN "InvalidArgument"
    ELSE IF ~Unique(dims) THEN "InvalidArgument"
    ELSE IF \E i \in 1..Len(dims) : start[i] > stop[i] THEN "InvalidArgument"
    ELSE IF \E i \in 1..Len(dims) : ~ContainedIn(domain[dims[i]], start[i], stop[i])
         THEN "OutOfRange"
    ELSE "ok"

\* Dims(..).HalfOpenInterval(start, stop, 1): each selected dimension becomes
\* [start, stop), the others are kept
HalfOpenInterval(domain, dims, start, stop) ==
    [i \in 1..Len(domain) |->
        IF \E k \in 1..Len(dims) : dims[k] = i
        THEN LET k == CHOOSE k \in 1..Len(dims) : dims[k] = i
             IN [label |-> domain[i].label, origin |-> start[k], shape |-> stop[k] - start[k]]
        ELSE domain[i]]

\* Dims(..).TranslateHalfOpenInterval(start, stop, 1): the same region, moved
\* to origin 0
TranslateHalfOpenInterval(domain, dims, start, stop) ==
    [i \in 1..Len(domain) |->
        IF \E k \in 1..Len(dims) : dims[k] = i
        THEN LET k == CHOOSE k \in 1..Len(dims) : dims[k] = i
             IN [label |-> domain[i].label, origin |-> 0, shape |-> stop[k] - start[k]]
        ELSE domain[i]]

----------------------------------------------------------------------------
(* Variable.                                                               *)

\* Variable::Variable(name, longName, metadata, store, attributes): records
\* the address of the UserAttributes object now in the cell
Variable(variableName, longName, metadata, store, attributes) ==
    [variableName |-> variableName, longName |-> longName, metadata |-> metadata,
     store |-> store, attributes |-> attributes,
     attributesAddress |-> cells[attributes]]

dimensions(v) == v.store.domain

\* Variable::hasLabel
hasLabel(v, labelToCheck) ==
    IF labelToCheck.kind = "index"
    THEN labelToCheck.index < Len(dimensions(v)) /\ labelToCheck.index >= 0
    ELSE \E i \in 1..Len(dimensions(v)) : dimensions(v)[i].label = labelToCheck.label

\* labels[idx] == desc.label: a label compares equal to a label-form
\* identifier of the same text, never to an index-form one
SameLabel(label, id) == id.kind = "label" /\ id.label = label

\* sliceInRange without the upper clamp: stop is passed through
sliceInRange_NoStopClamp(v, desc) ==
    LET domain == dimensions(v)
        hit == {idx \in 1..Len(domain) : SameLabel(domain[idx].label, desc.label)}
    IN IF hit # {}
       THEN LET idx == CHOOSE i \in hit : \A j \in hit : i <= j
            IN SliceDescriptor(
                   desc.label,
                   IF desc.start < domain[idx].origin THEN domain[idx].origin ELSE desc.start,
                   desc.stop,
                   desc.step)
       ELSE desc

\* Variable::sliceInRange
sliceInRange(v, desc) ==
    LET domain == dimensions(v)
        hit == {idx \in 1..Len(domain) : SameLabel(domain[idx].label, desc.label)}
    IN IF hit # {}
       THEN LET idx == CHOOSE i \in hit : \A j \in hit : i <= j
            IN SliceDescriptor(
                   desc.label,
                   IF desc.start < domain[idx].origin THEN domain[idx].origin ELSE desc.start,
                   IF desc.stop > domain[idx].shape THEN domain[idx].shape ELSE desc.stop,
                   desc.step)
       ELSE desc

\* the fold step with the step check made only for labels of the domain
sliceStep_StepOnPresent(v, desc, idx, acc) ==
    IF desc.step # 1 /\ hasLabel(v, desc.label)
    THEN [acc EXCEPT !.preconditionStatus = -2]
    ELSE LET clampedDesc == sliceInRange(v, desc)
         IN IF clampedDesc.start > clampedDesc.stop
            THEN [acc EXCEPT !.preconditionStatus = idx]
            ELSE IF hasLabel(v, clampedDesc.label)
                 THEN [acc EXCEPT !.picked = Append(@, clampedDesc)]
                 ELSE acc

\* one descriptor of Variable::slice's fold over its descriptors (idx from 0)
sliceStep(v, desc, idx, acc) ==
    IF desc.step # 1
    THEN [acc EXCEPT !.preconditionStatus = -2]
    ELSE LET clampedDesc == sliceInRange(v, desc)
         IN IF clampedDesc.start > clampedDesc.stop
            THEN [acc EXCEPT !.preconditionStatus = idx]
            ELSE IF hasLabel(v, clampedDesc.label)
                 THEN [acc EXCEPT !.picked = Append(@, clampedDesc)]
                 ELSE acc

RECURSIVE sliceFold(_, _, _, _)
sliceFold(v, descs, idx, acc) ==
    IF idx >= Len(descs) THEN acc
    ELSE sliceFold(v, descs, idx + 1, sliceStep(v, descs[idx + 1], idx, acc))

Result(status, value, msg, err) ==
    [status |-> status, value |-> value, msg |-> msg, err |-> err]

\* Variable::slice
slice(v, descs) ==
    LET f == sliceFold(v, descs, 0, [preconditionStatus |-> -1, picked |-> <<>>])
        dims == [k \in 1..Len(f.picked) |-> Resolve(dimensions(v), f.picked[k].label)]
        start == [k \in 1..Len(f.picked) |-> f.picked[k].start]
        stop == [k \in 1..Len(f.picked) |-> f.picked[k].stop]
        st == IntervalStatus(dimensions(v), dims, start, stop)
    IN IF f.preconditionStatus = -2
       THEN Result("InvalidArgument", NoValue, "step", NoDesc)
       ELSE IF f.preconditionStatus >= 0
       THEN Result("InvalidArgument", NoValue, "order", descs[f.preconditionStatus + 1])
       ELSE IF Len(f.picked) > 0
       THEN IF st # "ok"
            THEN Result(st, NoValue, "engine", NoDesc)
            ELSE Result("ok",
                        Variable(v.variableName, v.longName, v.metadata,
                                 [v.store EXCEPT !.domain =
                                     HalfOpenInterval(dimensions(v), dims, start, stop)],
                                 v.attributes),
                        "", NoDesc)
       ELSE Result("ok", v, "", NoDesc)

----------------------------------------------------------------------------
(* VariableData and LabeledArray: the in-memory snapshot.                  *)

\* one descriptor of LabeledArray::slice's fold
labeledStep(domain, desc, acc) ==
    IF Resolve(domain, desc.label) = 0
    THEN [acc EXCEPT !.overall_status = "InvalidArgument"]
    ELSE IF desc.step # 1
         THEN [acc EXCEPT !.preconditionStatus = FALSE,
                          !.dims = Append(@, Resolve(domain, desc.label))]
         ELSE [acc EXCEPT !.dims = Append(@, Resolve(domain, desc.label))]

RECURSIVE labeledFold(_, _, _, _)
labeledFold(domain, descs, idx, acc) ==
    IF idx >= Len(descs) THEN acc
    ELSE labeledFold(domain, descs, idx + 1, labeledStep(domain, descs[idx + 1], acc))

\* the materialized region with the bounds clamped to the array's domain first
LabeledArraySlice_Clamped(arr, descs) ==
    LET f == labeledFold(arr.domain, descs, 0,
                         [preconditionStatus |-> TRUE, overall_status |-> "ok", dims |-> <<>>])
        at(k) == arr.domain[f.dims[k]]
        start == [k \in 1..Len(descs) |->
                    IF descs[k].start < at(k).origin THEN at(k).origin ELSE descs[k].start]
        stop == [k \in 1..Len(descs) |->
                   IF descs[k].stop > at(k).origin + at(k).shape
                   THEN at(k).origin + at(k).shape ELSE descs[k].stop]
        st == IntervalStatus(arr.domain, f.dims, start, stop)
    IN IF ~f.preconditionStatus
       THEN Result("InvalidArgument", NoValue, "step", NoDesc)
       ELSE IF f.overall_status # "ok"
       THEN Result(f.overall_status, NoValue, "resolve", NoDesc)
       ELSE IF st # "ok"
       THEN Result(st, NoValue, "engine", NoDesc)
       ELSE Result("ok",
                   [domain |-> TranslateHalfOpenInterval(arr.domain, f.dims, start, stop),
                    region |-> HalfOpenInterval(arr.domain, f.dims, start, stop),
                    dtype |-> arr.dtype],
                   "", NoDesc)

\* LabeledArray::slice: the materialized region, or an error
LabeledArraySlice(arr, descs) ==
    LET f == labeledFold(arr.domain, descs, 0,
                         [preconditionStatus |-> TRUE, overall_status |-> "ok", dims |-> <<>>])
        start == [k \in 1..Len(descs) |-> descs[k].start]
        stop == [k \in 1..Len(descs) |-> descs[k].stop]
        st == IntervalStatus(arr.domain, f.dims, start, stop)
    IN IF ~f.preconditionStatus
       THEN Result("InvalidArgument", NoValue, "step", NoDesc)
       ELSE IF f.overall_status # "ok"
       THEN Result(f.overall_status, NoValue, "resolve", NoDesc)
       ELSE IF st # "ok"
       THEN Result(st, NoValue, "engine", NoDesc)
       ELSE Result("ok",
                   [domain |-> TranslateHalfOpenInterval(arr.domain, f.dims, start, stop),
                    region |-> HalfOpenInterval(arr.domain, f.dims, start, stop),
                    dtype |-> arr.dtype],
                   "", NoDesc)

\* VariableData::slice
VariableDataSlice(vd, descs) == LabeledArraySlice(vd.data, descs)

----------------------------------------------------------------------------
(* User attributes and the attribute cell.                                 *)

\* the payloads UpdateAttributes is called with
Payloads ==
    { [attributes |-> [unit |-> Str("m")]],
      [attributes |-> [unit |-> Str("ft")]],
      [statsV1 |-> Str("malformed")] }

\* UserAttributes::FromJson: a payload whose statistics cannot be parsed fails
FromJsonOk(j) == ~(Contains(j, "statsV1") /\ j["statsV1"] = Str("malformed"))
UserAttributes(j) == [attrs |-> j]
ToJson(u) == u.attrs

\* UserAttributes::FromVariableJson: the mutable entries of attributes.metadata
FromVariableJson(spec) ==
    IF Contains(spec, "attributes") /\ Contains(spec["attributes"], "metadata")
    THEN LET md == spec["attributes"]["metadata"]
         IN UserAttributes([k \in (DOMAIN md) \cap {"attributes", "statsV1"} |-> md[k]])
    ELSE UserAttributes(EmptyObj)

\* Variable::GetAttributes
GetAttributes(v) == ToJson(heap[cells[v.attributes]])

\* Variable::was_updated
was_updated(v) == v.attributesAddress # cells[v.attributes]

\* the copy of the stored tree that received long_name
getReducedMetadata_ModifiedCopy(v) == Put(v.metadata, "long_name", Str(v.longName))

\* Variable::getReducedMetadata: the stored tree; the copy that received
\* long_name is not the one returned
getReducedMetadata(v) ==
    LET retCopy == Put(v.metadata, "long_name", Str(v.longName))
    IN v.metadata

\* Variable::getMetadata
getMetadata(v) ==
    LET red == getReducedMetadata(v)
        attrs == GetAttributes(v)
    IN IF is_object(attrs) /\ ~empty(attrs)
       THEN Put(red, "attributes",
                Put(IF Contains(red, "attributes") THEN red["attributes"] ELSE EmptyObj,
                    "metadata", attrs))
       ELSE red

\* the document PublishMetadata's publish lambda writes
publishDocument(json_var) ==
    LET a0 == IF Contains(json_var, "attributes") THEN json_var["attributes"] ELSE EmptyObj
        a1 == Put(a0, "_ARRAY_DIMENSIONS", json_var["dimension_names"])
    IN IF Contains(json_var, "long_name")
       THEN Put(a1, "long_name", json_var["long_name"])
       ELSE a1

\* Variable::_dataset_only_callback_committed: the assignment of the new
\* address is commented out in the source, so the instance is left as it is
dataset_only_callback_committed(v) == v

\* the addresses no live UserAttributes object occupies
FreeAddr == {a \in Addr : heap[a] = NoObject}

\* the object in cell c is released when the slot lets go of it
SoleOwner(c) == \A d \in 1..Len(cells) : cells[d] = cells[c] => d = c

\* the slot replaced whatever the parse says
UpdateInstalls_Always(newAttrs) == TRUE

\* Variable::UpdateAttributes: whether the parsed result replaces the slot
UpdateInstalls(newAttrs) == FromJsonOk(newAttrs)

----------------------------------------------------------------------------
(* Opening the store.                                                      *)

\* kvstore.path, as the pieces between its separators "/" and "."
StorePath == <<"velocity">>
Dtype == "float32"

RECURSIVE Cat(_)
Cat(pieces) == IF pieces = <<>> THEN "" ELSE Head(pieces) \o Cat(Tail(pieces))

\* the pieces after the last occurrence of sep (all of them if there is none)
AfterLast(pieces, sep) ==
    LET at == {i \in 1..Len(pieces) : pieces[i] = sep}
        last == IF at = {} THEN 0 ELSE CHOOSE i \in at : \A j \in at : j <= i
    IN SubSeq(pieces, last + 1, Len(pieces))

\* absl::StrSplit(path, "/").back()
StrSplitBack(path) == Cat(AfterLast(path, "/"))

\* std::filesystem::path(path).stem(): the filename without its last
\* extension; a leading dot does not start an extension
stem(path) ==
    LET filename == AfterLast(path, "/")
        dots == {i \in 2..Len(filename) : filename[i] = "."}
        last == IF dots = {} THEN 0 ELSE CHOOSE i \in dots : \A j \in dots : j <= i
    IN IF filename = <<".">> \/ filename = <<".", ".">> \/ last = 0
       THEN Cat(filename)
       ELSE Cat(SubSeq(filename, 1, last - 1))

\* the drivers whose side-document key has no leading separator
isCloudStore(driver) == driver = "gcs" \/ driver = "s3"

\* the keys the side-document is accessed with
ZattrsKey == <<"/", ".", "zattrs">>
CloudZattrsKey == <<".", "zattrs">>

\* the key with the leading separator, whatever the driver
outpath_AlwaysSeparator(driver) == ZattrsKey

\* publish: std::string outpath
outpath(driver) == IF isCloudStore(driver) THEN CloudZattrsKey ELSE ZattrsKey

\* the path of store.kvstore(): the array's directory, ending in a separator
EnsureDirectoryPath(path) ==
    IF path # <<>> /\ path[Len(path)] # "/" THEN Append(path, "/") ELSE path

\* a file system reads a run of separators as one separator
RECURSIVE Collapse(_)
Collapse(pieces) ==
    IF Len(pieces) < 2 THEN pieces
    ELSE IF pieces[1] = "/" /\ pieces[2] = "/" THEN Collapse(Tail(pieces))
    ELSE <<pieces[1]>> \o Collapse(Tail(pieces))

\* the object a key names under a kvstore path: the concatenation, which an
\* object store takes literally
ObjectName(driver, base, key) ==
    IF isCloudStore(driver) THEN Cat(base \o key) ELSE Cat(Collapse(base \o key))

\* kvstore::Write(store.kvstore(), outpath, ...)
WriteObject(k) == ObjectName(k.driver, EnsureDirectoryPath(k.path), outpath(k.driver))

\* kvstore::Read(kvstore::Open(store_spec["kvstore"]), "/.zattrs")
ReadObject(k) == ObjectName(k.driver, k.path, ZattrsKey)

\* the store after a write of the side-document
WriteZattrs(k, access, doc) ==
    [k EXCEPT !.access = access, !.key = outpath(k.driver), !.object = WriteObject(k),
              !.elsewhere = IF WriteObject(k) = ReadObject(k) THEN @ ELSE doc]

\* the store the whole-program specification starts with: created earlier
CreatedStore ==
    [driver |-> "file", path |-> StorePath,
     zarray |-> [dtype |-> Dtype, domain |-> StoreDomain],
     chunks |-> 0, elsewhere |-> NoValue, access |-> "none", key |-> <<>>, object |-> ""]

\* no create is in flight
NoFuture ==
    [store |-> "none", build |-> "none", write |-> "none", promise |-> "none",
     variable |-> NoValue, json_var |-> NoValue, output_json |-> NoValue]

\* no thread is inside a call
NoThreads == <<>>

\* the side-document a create of "velocity" left in the store
CreatedZattrs ==
    [_ARRAY_DIMENSIONS |-> Arr(<<"inline", "crossline">>), long_name |-> Str("Velocity")]

\* make_variable: the persisted document under "attributes", with the name
\* taken from the path and _ARRAY_DIMENSIONS moved to dimension_names
new_metadata(doc, variable_name) ==
    LET a0 == Put(doc, "variable_name", Str(variable_name))
        a1 == IF Contains(a0, "_ARRAY_DIMENSIONS")
              THEN Erase(Put(a0, "dimension_names", a0["_ARRAY_DIMENSIONS"]),
                         "_ARRAY_DIMENSIONS")
              ELSE a0
    IN [attributes |-> a1]

\* the names applied from the last dimension backwards
ApplyLabels_Reversed(domain, names) ==
    [i \in 1..Len(domain) |->
        IF i <= Len(names)
        THEN [domain[i] EXCEPT !.label = names[Len(names) + 1 - i]] ELSE domain[i]]

\* Dims(i).Label(dimension_names[i]) for each declared name, in order
ApplyLabels(domain, names) ==
    [i \in 1..Len(domain) |->
        IF i <= Len(names) THEN [domain[i] EXCEPT !.label = names[i]] ELSE domain[i]]

\* from_json: the metadata tree kept by the Variable
scrubbed_spec(spec) ==
    LET attributes ==
            IF Contains(spec, "attributes") /\ Contains(spec["attributes"], "variable_name")
            THEN spec["attributes"] ELSE spec
        s0 == Erase(attributes, "variable_name")
        s1 == IF Contains(s0, "long_name")
                    /\ ~(is_string(s0["long_name"]) /\ s0["long_name"] # Str(""))
              THEN Erase(s0, "long_name") ELSE s0
    IN IF Contains(s1, "metadata")
       THEN Put(s1, "metadata", Erase(Erase(s1["metadata"], "attributes"), "statsV1"))
       ELSE s1

\* from_json: the long name, empty by default
long_name_of(spec) ==
    LET attributes ==
            IF Contains(spec, "attributes") /\ Contains(spec["attributes"], "variable_name")
            THEN spec["attributes"] ELSE spec
    IN IF Contains(attributes, "long_name") /\ is_string(attributes["long_name"])
       THEN attributes["long_name"].str ELSE ""

----------------------------------------------------------------------------
(* Creating the store.                                                     *)

Drivers == {"file", "gcs", "s3"}
Paths == {<<"velocity">>, <<"velocity", ".", "zarr">>, <<"data", "/", "velocity">>}

\* the sections a schema is put together from; NoValue: the key is absent
DimensionNames ==
    {NoValue, Arr(<<"inline", "crossline">>), Arr(<<"crossline", "inline">>),
     Arr(<<"inline">>), Arr(<<"inline", "crossline", "depth">>),
     Arr(<<"inline", "inline">>)}
LongNames == {NoValue, Str(""), Str("Velocity")}
Coordinates == {NoValue, Str(""), Arr(<<>>), Str("cdp_x cdp_y")}
AttributesMetadata ==
    {NoValue,
     [chunkGrid |-> Str("regular")],
     [chunkGrid |-> Str("regular"), attributes |-> [unit |-> Str("m")]],
     [unitsV1 |-> Str("m"), statsV1 |-> Str("count 6")]}
StoreMetadata ==
    {NoValue,
     [shape |-> Arr(<<InlineExt, CrosslineExt>>)],
     [shape |-> Arr(<<InlineExt, CrosslineExt>>), dtype |-> Str("<f4")]}

\* an object with the given keys, without those whose value is absent
Object(f) == [k \in {x \in DOMAIN f : f[x] # NoValue} |-> f[k]]

\* every combination of the optional keys with the store's dimension names,
\* and every list of dimension names with a long name
AttributesSections ==
    {NoValue}
    \cup {Object([dimension_names |-> Arr(<<"inline", "crossline">>),
                  long_name |-> ln, coordinates |-> co, metadata |-> md]) :
            ln \in LongNames, co \in Coordinates, md \in AttributesMetadata}
    \cup {Object([dimension_names |-> dn, long_name |-> Str("Velocity")]) :
            dn \in DimensionNames}

\* the schema documents Open is called with in a create mode, for the store
\* at hand
Schemas(k) ==
    {Object([kvstore |-> [driver |-> k.driver, path |-> k.path],
             attributes |-> at, metadata |-> md]) :
        at \in AttributesSections, md \in StoreMetadata}

\* ValidateAndProcessJson: the store document and the attributes document
ValidateAndProcessJson(json_spec) ==
    IF ~Contains(json_spec, "attributes")
    THEN [status |-> "InvalidArgument", json_store |-> NoValue, json_var |-> NoValue]
    ELSE IF ~Contains(json_spec["attributes"], "dimension_names")
    THEN [status |-> "InvalidArgument", json_store |-> NoValue, json_var |-> NoValue]
    ELSE [status |-> "ok",
          json_store |-> Erase(json_spec, "attributes"),
          json_var |-> Put(json_spec["attributes"], "variable_name",
                           Str(stem(json_spec["kvstore"].path)))]

\* internal_zarr::ParseDType: the element type, "" if the string names none
ParseDType(dtype) ==
    IF dtype = Str("<f4") THEN "float32"
    ELSE IF dtype = Str("<i4") THEN "int32"
    ELSE ""

\* the checks without the one for metadata.dtype
CreateVariableChecks_NoDtype(json_spec, json_var) ==
    IF empty(json_var) THEN "InvalidArgument"
    ELSE IF ~Contains(json_spec, "metadata") THEN "InvalidArgument"
    ELSE "ok"

\* CreateVariable: the checks made before the storage engine is asked
CreateVariableChecks(json_spec, json_var) ==
    IF empty(json_var) THEN "InvalidArgument"
    ELSE IF ~Contains(json_spec, "metadata") THEN "InvalidArgument"
    ELSE IF ~Contains(json_spec["metadata"], "dtype") THEN "InvalidArgument"
    ELSE IF ParseDType(json_spec["metadata"]["dtype"]) = "" THEN "InvalidArgument"
    ELSE "ok"

\* Open in a create mode, up to the call of the storage engine
CreateStatus(json_spec) ==
    LET v == ValidateAndProcessJson(json_spec)
    IN IF v.status # "ok" THEN v.status
       ELSE CreateVariableChecks(v.json_store, v.json_var)

\* the keys of md put at the top level of obj, replacing what was there
Hoist(obj, md) ==
    [k \in (DOMAIN obj) \cup (DOMAIN md) |-> IF k \in DOMAIN md THEN md[k] ELSE obj[k]]

\* the document with every key of the nested metadata hoisted
output_json_KeepChunkGrid(json_var) ==
    LET o1 == Erase(Put(json_var, "_ARRAY_DIMENSIONS", json_var["dimension_names"]),
                    "dimension_names")
        o2 == Erase(o1, "variable_name")
        o3 == IF Contains(o2, "metadata")
              THEN Erase(Hoist(o2, o2["metadata"]), "metadata")
              ELSE o2
        o4 == IF Contains(o3, "long_name") /\ o3["long_name"] = Str("")
              THEN Erase(o3, "long_name") ELSE o3
    IN IF Contains(o4, "coordinates")
            /\ (empty(o4["coordinates"])
                \/ (is_string(o4["coordinates"]) /\ o4["coordinates"] = Str("")))
       THEN Erase(o4, "coordinates") ELSE o4

\* CreateVariable's publish lambda: the document written as side-document
output_json(json_var) ==
    LET o1 == Erase(Put(json_var, "_ARRAY_DIMENSIONS", json_var["dimension_names"]),
                    "dimension_names")
        o2 == Erase(o1, "variable_name")
        o3 == IF Contains(o2, "metadata")
              THEN Erase(Hoist(o2, Erase(o2["metadata"], "chunkGrid")), "metadata")
              ELSE o2
        o4 == IF Contains(o3, "long_name") /\ o3["long_name"] = Str("")
              THEN Erase(o3, "long_name") ELSE o3
    IN IF Contains(o4, "coordinates")
            /\ (empty(o4["coordinates"])
                \/ (is_string(o4["coordinates"]) /\ o4["coordinates"] = Str("")))
       THEN Erase(o4, "coordinates") ELSE o4

\* Dims(i).Label(name) succeeds for a dimension of the domain and a label
\* no other dimension carries
LabelsOk(domain, names) ==
    /\ Len(names) <= Len(domain)
    /\ \A i, j \in 1..Len(names) : (names[i] = names[j] /\ names[i] # "") => i = j

----------------------------------------------------------------------------
(* Initial state: the program has opened the store once.                   *)

RootMetadata == new_metadata(CreatedZattrs, StrSplitBack(StorePath))

\* the store and the one handle on it
Opened ==
    /\ cells = <<1>>
    /\ heap = [a \in Addr |-> IF a = 1 THEN FromVariableJson(RootMetadata) ELSE NoObject]
    /\ vars = << [variableName |-> StrSplitBack(StorePath),
                  longName |-> long_name_of(RootMetadata),
                  metadata |-> scrubbed_spec(RootMetadata),
                  store |-> [domain |-> ApplyLabels(StoreDomain,
                                            RootMetadata["attributes"]["dimension_names"].arr),
                             dtype |-> Dtype, open |-> 1],
                  attributes |-> 1,
                  attributesAddress |-> 1] >>
    /\ zattrs = CreatedZattrs
    /\ kvs = CreatedStore
    /\ fut = NoFuture
    /\ snap = NoValue
    /\ hist = << [updated |-> FALSE, last |-> ToJson(FromVariableJson(RootMetadata))] >>
    /\ call = [op |-> "none", self |-> 0, descs |-> <<>>, payload |-> EmptyObj]
    /\ ret = Result("ok", NoValue, "", NoDesc)

Init == Opened /\ thr = NoThreads

Idle == call.op = "none"
Call(op, self, descs, payload) ==
    [op |-> op, self |-> self, descs |-> descs, payload |-> payload]

----------------------------------------------------------------------------
(* Operations.                                                             *)

\* the keys of an object in the order nlohmann::json iterates them
KeyOrder ==
    <<"_ARRAY_DIMENSIONS", "attributes", "chunkGrid", "coordinates", "dimension_names",
      "long_name", "metadata", "statsV1", "unit", "unitsV1", "variable_name">>
items(j) == SelectSeq(KeyOrder, LAMBDA k : Contains(j, k))

\* make_variable: the supplied attributes without what is not serialized
correctedSuppliedAttrs(suppliedAttributes) ==
    LET at == suppliedAttributes["attributes"]
    IN [attributes |->
           IF Contains(at, "metadata")
           THEN Erase(Hoist(at, Erase(at["metadata"], "chunkGrid")), "metadata")
           ELSE at]

\* make_variable: the persisted side of the comparison
searchableMetadata(md) ==
    LET at == Erase(md["attributes"], "variable_name")
    IN [attributes |->
           IF Contains(at, "metadata")
           THEN Erase(Hoist(at, at["metadata"]), "metadata")
           ELSE at]

\* the for loop over one pair of the queue, from the i-th key on: the first
\* failure, or the pairs of objects it pushed
RECURSIVE CompareItems(_, _, _, _)
CompareItems(currentMetadata, currentAttributes, i, pushed) ==
    LET keys == items(currentMetadata)
    IN IF i > Len(keys) THEN [status |-> "ok", key |-> "", values |-> NoDesc, pushed |-> pushed]
       ELSE LET key == keys[i]
            IN IF ~Contains(currentAttributes, key)
               THEN [status |-> "NotFound", key |-> key, values |-> NoDesc, pushed |-> pushed]
               ELSE IF is_object(currentMetadata[key]) /\ is_object(currentAttributes[key])
               THEN CompareItems(currentMetadata, currentAttributes, i + 1,
                                 Append(pushed, <<currentMetadata[key], currentAttributes[key]>>))
               ELSE IF currentMetadata[key] # currentAttributes[key]
               THEN [status |-> "InvalidArgument", key |-> key,
                     values |-> [expected |-> currentMetadata[key],
                                 got |-> currentAttributes[key]],
                     pushed |-> pushed]
               ELSE CompareItems(currentMetadata, currentAttributes, i + 1, pushed)

\* the comparison of the first pair only
Bfs_FirstPairOnly(queue) ==
    LET r == CompareItems(Head(queue)[1], Head(queue)[2], 1, <<>>)
    IN [status |-> r.status, key |-> r.key, values |-> r.values]

\* the while loop over the queue
RECURSIVE Bfs(_)
Bfs(queue) ==
    IF queue = <<>> THEN [status |-> "ok", key |-> "", values |-> NoDesc]
    ELSE LET r == CompareItems(Head(queue)[1], Head(queue)[2], 1, <<>>)
         IN IF r.status # "ok" THEN [status |-> r.status, key |-> r.key, values |-> r.values]
            ELSE Bfs(Tail(queue) \o r.pushed)

\* make_variable, up to from_json: the failure, or "ok"
make_variable(doc, variable_name, domain, suppliedAttributes) ==
    LET md == new_metadata(doc, variable_name)
    IN IF ~Contains(md["attributes"], "dimension_names")
       THEN [status |-> "NotFound", key |-> "metadata", values |-> NoDesc]
       ELSE IF ~LabelsOk(domain, md["attributes"]["dimension_names"].arr)
       THEN [status |-> "InvalidArgument", key |-> "", values |-> NoDesc]
       ELSE IF ~is_null(suppliedAttributes)
       THEN Bfs(<< <<searchableMetadata(md), correctedSuppliedAttrs(suppliedAttributes)>> >>)
       ELSE [status |-> "ok", key |-> "", values |-> NoDesc]

\* OpenVariable on the existing store, with the attributes the caller expects
\* (Null: none): a new handle with an attribute cell of its own
OpenVariable(suppliedAttributes) ==
    /\ Idle
    /\ Len(cells) < MaxCells
    /\ kvs.zarray # NoValue
    /\ call' = Call("Open", 0, <<>>, suppliedAttributes)
    /\ kvs' = [kvs EXCEPT !.access = "open.read", !.key = ZattrsKey,
                          !.object = ReadObject(kvs)]
    /\ LET variable_name == StrSplitBack(kvs.path)
           md == new_metadata(zattrs, variable_name)
           r == make_variable(zattrs, variable_name, kvs.zarray.domain, suppliedAttributes)
       IN IF zattrs = NoValue
          THEN /\ ret' = Result("parse_error", NoValue, "", NoDesc)
               /\ UNCHANGED <<heap, cells, hist>>
          ELSE IF r.status # "ok"
          THEN /\ ret' = Result(r.status, NoValue, r.key, r.values)
               /\ UNCHANGED <<heap, cells, hist>>
          ELSE \E a \in FreeAddr :
                 /\ heap' = [heap EXCEPT ![a] = FromVariableJson(md)]
                 /\ cells' = Append(cells, a)
                 /\ hist' = Append(hist, [updated |-> FALSE,
                                          last |-> ToJson(FromVariableJson(md))])
                 /\ ret' = Result("ok",
                              [variableName |-> variable_name,
                               longName |-> long_name_of(md),
                               metadata |-> scrubbed_spec(md),
                               store |-> [domain |-> ApplyLabels(kvs.zarray.domain,
                                                         md["attributes"]["dimension_names"].arr),
                                          dtype |-> kvs.zarray.dtype, open |-> Len(cells) + 1],
                               attributes |-> Len(cells) + 1,
                               attributesAddress |-> a],
                              "", NoDesc)
    /\ UNCHANGED <<vars, zattrs, snap, fut, thr>>

\* Open of the existing store, without expected attributes
Open == OpenVariable(Null)

\* a copy that takes a cell of its own, pointing at the same object
Copy_OwnCell(i) ==
    /\ Idle
    /\ Len(cells) < MaxCells
    /\ call' = Call("Copy", i, <<>>, EmptyObj)
    /\ cells' = Append(cells, cells[vars[i].attributes])
    /\ ret' = Result("ok", [vars[i] EXCEPT !.attributes = Len(cells) + 1], "", NoDesc)
    /\ UNCHANGED <<vars, heap, zattrs, snap, hist, kvs, fut, thr>>

\* the implicit copy constructor: every member is copied
Copy(i) ==
    /\ Idle
    /\ call' = Call("Copy", i, <<>>, EmptyObj)
    /\ ret' = Result("ok", vars[i], "", NoDesc)
    /\ UNCHANGED <<vars, cells, heap, zattrs, snap, hist, kvs, fut, thr>>

\* the converting constructor: attributesAddress is initialized from itself,
\* so the new object holds an indeterminate value
Convert(i, garbage) ==
    /\ Idle
    /\ call' = Call("Convert", i, <<>>, EmptyObj)
    /\ ret' = Result("ok",
                     [vars[i] EXCEPT !.metadata = getReducedMetadata(vars[i]),
                                     !.attributesAddress = garbage],
                     "", NoDesc)
    /\ UNCHANGED <<vars, cells, heap, zattrs, snap, hist, kvs, fut, thr>>

\* Variable::slice on handle i
Slice(i, descs) ==
    /\ Idle
    /\ call' = Call("slice", i, descs, EmptyObj)
    /\ ret' = slice(vars[i], descs)
    /\ UNCHANGED <<vars, cells, heap, zattrs, snap, hist, kvs, fut, thr>>

\* Variable::Read on handle i
Read(i) ==
    /\ Idle
    /\ snap = NoValue
    /\ snap' = [variableName |-> vars[i].variableName,
                longName |-> vars[i].longName,
                metadata |-> getMetadata(vars[i]),
                data |-> [domain |-> dimensions(vars[i]), dtype |-> vars[i].store.dtype,
                          value |-> kvs.chunks]]
    /\ call' = Call("Read", i, <<>>, EmptyObj)
    /\ ret' = Result("ok", NoValue, "", NoDesc)
    /\ UNCHANGED <<vars, cells, heap, zattrs, hist, kvs, fut, thr>>

\* Variable::getReducedMetadata on handle i
GetReducedMetadata(i) ==
    /\ Idle
    /\ call' = Call("getReducedMetadata", i, <<>>, EmptyObj)
    /\ ret' = Result("ok", getReducedMetadata(vars[i]), "", NoDesc)
    /\ UNCHANGED <<vars, cells, heap, zattrs, snap, hist, kvs, fut, thr>>

\* the element types a caller's array can have
Dtypes == {"float32", "int32"}

\* the public constructor of VariableData: the caller wraps an array of its
\* own, of any element type
Construct(dtype, value) ==
    /\ Idle
    /\ snap = NoValue
    /\ snap' = [variableName |-> vars[1].variableName,
                longName |-> "",
                metadata |-> EmptyObj,
                data |-> [domain |-> dimensions(vars[1]), dtype |-> dtype, value |-> value]]
    /\ UNCHANGED <<vars, cells, heap, zattrs, hist, call, ret, kvs, fut, thr>>

\* the caller changes the elements of the snapshot's array
Modify(value) ==
    /\ Idle
    /\ snap # NoValue
    /\ snap.data.value # value
    /\ snap' = [snap EXCEPT !.data.value = value]
    /\ UNCHANGED <<vars, cells, heap, zattrs, hist, call, ret, kvs, fut, thr>>

\* a write that does not compare the element types
Write_NoDtypeCheck(i, engineOk) ==
    /\ Idle
    /\ snap # NoValue
    /\ call' = Call("Write", i, <<>>, EmptyObj)
    /\ IF engineOk
       THEN /\ kvs' = [kvs EXCEPT !.chunks = snap.data.value]
            /\ ret' = Result("ok", NoValue, "", NoDesc)
       ELSE /\ kvs' = kvs
            /\ ret' = Result("Unavailable", NoValue, "", NoDesc)
    /\ UNCHANGED <<vars, cells, heap, zattrs, snap, hist, fut, thr>>

\* Variable::Write of the snapshot to handle i; the engine's write succeeds
\* or fails
Write(i, engineOk) ==
    /\ Idle
    /\ snap # NoValue
    /\ call' = Call("Write", i, <<>>, EmptyObj)
    /\ IF snap.data.dtype # vars[i].store.dtype
       THEN /\ kvs' = kvs
            /\ ret' = Result("InvalidArgument", NoValue, "", NoDesc)
       ELSE IF engineOk
       THEN /\ kvs' = [kvs EXCEPT !.chunks = snap.data.value]
            /\ ret' = Result("ok", NoValue, "", NoDesc)
       ELSE /\ kvs' = kvs
            /\ ret' = Result("Unavailable", NoValue, "", NoDesc)
    /\ UNCHANGED <<vars, cells, heap, zattrs, snap, hist, fut, thr>>

\* the snapshot goes out of scope
Discard ==
    /\ Idle
    /\ snap # NoValue
    /\ snap' = NoValue
    /\ UNCHANGED <<vars, cells, heap, zattrs, hist, call, ret, kvs, fut, thr>>

\* VariableData::slice on the snapshot
SnapshotSlice(descs) ==
    /\ Idle
    /\ snap # NoValue
    /\ call' = Call("VariableData.slice", 0, descs, EmptyObj)
    /\ ret' = VariableDataSlice(snap, descs)
    /\ UNCHANGED <<vars, cells, heap, zattrs, snap, hist, kvs, fut, thr>>

\* Variable::UpdateAttributes on handle i
UpdateAttributes(i, newAttrs) ==
    /\ Idle
    /\ call' = Call("UpdateAttributes", i, <<>>, newAttrs)
    /\ IF UpdateInstalls(newAttrs)
       THEN \E a \in FreeAddr :
              /\ heap' = [x \in Addr |->
                            IF x = a THEN UserAttributes(newAttrs)
                            ELSE IF x = cells[vars[i].attributes]
                                    /\ SoleOwner(vars[i].attributes) THEN NoObject
                            ELSE heap[x]]
              /\ cells' = [cells EXCEPT ![vars[i].attributes] = a]
              /\ hist' = [hist EXCEPT ![vars[i].store.open] =
                                         [updated |-> TRUE, last |-> newAttrs]]
              /\ ret' = Result(IF FromJsonOk(newAttrs) THEN "ok" ELSE "InvalidArgument",
                               NoValue, "", NoDesc)
       ELSE /\ ret' = Result("InvalidArgument", NoValue, "", NoDesc)
            /\ UNCHANGED <<cells, heap, hist>>
    /\ UNCHANGED <<vars, zattrs, snap, kvs, fut, thr>>

\* Variable::PublishMetadata on handle i; the write succeeds or fails
PublishMetadata(i, writeOk) ==
    /\ Idle
    /\ call' = Call("PublishMetadata", i, <<>>, EmptyObj)
    /\ IF writeOk
       THEN /\ kvs' = WriteZattrs(kvs, "publish.write", publishDocument(getMetadata(vars[i])))
            /\ zattrs' = IF WriteObject(kvs) = ReadObject(kvs)
                         THEN publishDocument(getMetadata(vars[i])) ELSE zattrs
            /\ vars' = [vars EXCEPT ![i] = dataset_only_callback_committed(vars[i])]
            /\ ret' = Result("ok", NoValue, "", NoDesc)
       ELSE /\ ret' = Result("Unavailable", NoValue, "", NoDesc)
            /\ UNCHANGED <<vars, zattrs, kvs>>
    /\ UNCHANGED <<cells, heap, snap, hist, fut, thr>>

\* the promise follows the build branch alone
Settled_BuildOnly(f, status) ==
    IF f.promise # "none" THEN ret
    ELSE IF f.build = "fail" THEN Result(status, NoValue, "", NoDesc)
    ELSE IF f.build = "ok" THEN Result("ok", f.variable, "", NoDesc)
    ELSE ret

\* WaitAllFuture and the callback on it: the promise is set when a branch
\* fails, or when both have succeeded; f is the create after the step, status
\* the failure of the branch that took the step
Settled(f, status) ==
    IF f.promise # "none" THEN ret
    ELSE IF f.build = "fail" \/ f.write = "fail" THEN Result(status, NoValue, "", NoDesc)
    ELSE IF f.build = "ok" /\ f.write = "ok" THEN Result("ok", f.variable, "", NoDesc)
    ELSE ret

promise(f) ==
    IF f.promise # "none" THEN f.promise
    ELSE IF f.build = "fail" \/ f.write = "fail" THEN "error"
    ELSE IF f.build = "ok" /\ f.write = "ok" THEN "value"
    ELSE "none"

\* Open in a create mode: ValidateAndProcessJson, then CreateVariable up to
\* the futures it sets up
Create(json_spec) ==
    /\ Idle
    /\ kvs.zarray = NoValue
    /\ fut.store \in {"none", "fail"}
    /\ call' = Call("Create", 0, <<>>, json_spec)
    /\ IF CreateStatus(json_spec) = "ok"
       THEN /\ fut' = [NoFuture EXCEPT !.store = "pending",
                                       !.json_var = ValidateAndProcessJson(json_spec).json_var]
            /\ ret' = Result("pending", NoValue, "", NoDesc)
       ELSE /\ fut' = fut
            /\ ret' = Result(CreateStatus(json_spec), NoValue, "", NoDesc)
    /\ UNCHANGED <<vars, cells, heap, zattrs, kvs, thr, snap, hist>>

\* tensorstore::Open completes: the array exists, or the open failed and
\* both mapped futures fail with it
StoreReady(ok) ==
    /\ fut.store = "pending"
    /\ IF ok
       THEN /\ kvs' = [kvs EXCEPT !.zarray =
                          [dtype |-> ParseDType(call.payload["metadata"]["dtype"]),
                           domain |-> StoreDomain]]
            /\ fut' = [fut EXCEPT !.store = "ok"]
            /\ ret' = ret
       ELSE /\ kvs' = kvs
            /\ fut' = [fut EXCEPT !.store = "fail", !.build = "fail", !.write = "fail",
                                  !.promise = "error"]
            /\ ret' = Result("Unavailable", NoValue, "", NoDesc)
    /\ UNCHANGED <<vars, cells, heap, zattrs, thr, snap, hist, call>>

\* the build lambda: the dimensions are labelled, then from_json
Build ==
    /\ fut.store = "ok"
    /\ fut.build = "none"
    /\ Len(cells) < MaxCells
    /\ LET names == fut.json_var["dimension_names"].arr
           f == [fut EXCEPT !.build = "fail"]
       IN IF LabelsOk(kvs.zarray.domain, names)
          THEN \E a \in FreeAddr :
                 LET g == [fut EXCEPT
                             !.build = "ok",
                             !.variable =
                                 [variableName |-> fut.json_var["variable_name"].str,
                                  longName |-> long_name_of(fut.json_var),
                                  metadata |-> scrubbed_spec(fut.json_var),
                                  store |-> [domain |-> ApplyLabels(kvs.zarray.domain, names),
                                             dtype |-> kvs.zarray.dtype,
                                             open |-> Len(cells) + 1],
                                  attributes |-> Len(cells) + 1,
                                  attributesAddress |-> a]]
                 IN /\ heap' = [heap EXCEPT ![a] = FromVariableJson(fut.json_var)]
                    /\ cells' = Append(cells, a)
                    /\ hist' = Append(hist, [updated |-> FALSE,
                                             last |-> ToJson(FromVariableJson(fut.json_var))])
                    /\ fut' = [g EXCEPT !.promise = promise(g)]
                    /\ ret' = Settled(g, "InvalidArgument")
          ELSE /\ fut' = [f EXCEPT !.promise = promise(f)]
               /\ ret' = Settled(f, "InvalidArgument")
               /\ UNCHANGED <<heap, cells, hist>>
    /\ UNCHANGED <<vars, zattrs, kvs, thr, snap, call>>

\* the publish lambda: the side-document is composed and its write issued
Publish ==
    /\ fut.store = "ok"
    /\ fut.write = "none"
    /\ fut' = [fut EXCEPT !.write = "pending", !.output_json = output_json(fut.json_var)]
    /\ kvs' = [kvs EXCEPT !.access = "create.write", !.key = outpath(kvs.driver),
                          !.object = WriteObject(kvs)]
    /\ UNCHANGED <<vars, cells, heap, zattrs, thr, snap, hist, call, ret>>

\* kvstore::Write completes: the document is in the store, or the write failed
WriteDone(ok) ==
    /\ fut.write = "pending"
    /\ LET f == [fut EXCEPT !.write = IF ok THEN "ok" ELSE "fail"]
       IN /\ fut' = [f EXCEPT !.promise = promise(f)]
          /\ ret' = Settled(f, "Unavailable")
    /\ IF ok
       THEN /\ zattrs' = IF WriteObject(kvs) = ReadObject(kvs) THEN fut.output_json ELSE zattrs
            /\ kvs' = WriteZattrs(kvs, "create.write", fut.output_json)
       ELSE UNCHANGED <<zattrs, kvs>>
    /\ UNCHANGED <<vars, cells, heap, thr, snap, hist, call>>

ReturnsVariable ==
    call.op \in {"Open", "Create", "Copy", "Convert", "slice"} /\ ret.status = "ok"
Done == Call("none", 0, <<>>, EmptyObj)

\* the caller keeps the returned Variable in a new handle
Bind ==
    /\ ReturnsVariable
    /\ Len(vars) < MaxVars
    /\ vars' = Append(vars, ret.value)
    /\ call' = Done
    /\ ret' = Result("ok", NoValue, "", NoDesc)
    /\ UNCHANGED <<cells, heap, zattrs, snap, hist, kvs, fut, thr>>

\* the caller assigns the returned Variable to the handle it called
Rebind ==
    /\ ReturnsVariable
    /\ call.self > 0
    /\ snap = NoValue
    /\ vars' = [vars EXCEPT ![call.self] = ret.value]
    /\ call' = Done
    /\ ret' = Result("ok", NoValue, "", NoDesc)
    /\ UNCHANGED <<cells, heap, zattrs, snap, hist, kvs, fut, thr>>

\* the caller drops the result
Drop ==
    /\ ~Idle
    /\ ret.status # "pending"
    /\ call' = Done
    /\ ret' = Result("ok", NoValue, "", NoDesc)
    /\ UNCHANGED <<vars, cells, heap, zattrs, snap, hist, kvs, fut, thr>>

----------------------------------------------------------------------------
(* Specifications.                                                         *)

\* a call of Variable::slice, or of VariableData::slice, with one of the
\* given descriptor lists
SliceWith(lists) ==
    Idle /\ \E i \in 1..Len(vars), descs \in lists : Slice(i, descs)
SnapshotSliceWith(lists) ==
    Idle /\ \E descs \in lists : SnapshotSlice(descs)

\* the whole program, slicing with the core descriptor lists
Next ==
    \/ Open
    \/ \E i \in 1..Len(vars) : Copy(i)
    \/ \E i \in 1..Len(vars), g \in 0..MaxAddr : Convert(i, g)
    \/ SliceWith(CoreDescLists)
    \/ \E i \in 1..Len(vars) : Read(i)
    \/ Discard
    \/ SnapshotSliceWith(CoreDescLists)
    \/ \E i \in 1..Len(vars), p \in Payloads : UpdateAttributes(i, p)
    \/ \E i \in 1..Len(vars), w \in BOOLEAN : PublishMetadata(i, w)
    \/ Bind
    \/ Drop

Spec == Init /\ [][Next]_vars_all

\* the slice resolver alone, over every descriptor list, on one handle
NextSlice ==
    \/ SliceWith(DescLists)
    \/ \E i \in 1..Len(vars) : Read(i)
    \/ Discard
    \/ SnapshotSliceWith(DescLists)
    \/ Rebind
    \/ Drop

SliceSpec == Init /\ [][NextSlice]_vars_all

\* reading, changing and writing back the array's data
NextWrite ==
    \/ \E i \in 1..Len(vars) : Read(i)
    \/ \E dtype \in Dtypes, value \in 0..MaxValue : Construct(dtype, value)
    \/ \E value \in 0..MaxValue : Modify(value)
    \/ \E i \in 1..Len(vars), engineOk \in BOOLEAN : Write(i, engineOk)
    \/ Discard
    \/ SliceWith(CoreDescLists)
    \/ SnapshotSliceWith(CoreDescLists)
    \/ Bind
    \/ Drop

WriteSpec == Init /\ [][NextWrite]_vars_all

----------------------------------------------------------------------------
(* Threads on one attribute cell. UpdateAttributes, GetAttributes and      *)
(* was_updated take no lock, so their reads and writes of the slot and of  *)
(* the object behind it interleave.                                        *)

Threads == 1..MaxThreads
Garbage == [garbage |-> TRUE]
NotRunning ==
    [pc |-> "idle", op |-> "none", p |-> 0, a |-> 0, payload |-> EmptyObj, result |-> NoValue]

\* the values a read of released memory can give: what was there, what an
\* update has put there since, or anything else
Released == {Garbage} \cup {ToJson(heap[a]) : a \in {x \in Addr : heap[x] # NoObject}}

InitRace ==
    /\ Opened
    /\ thr = [t \in Threads |-> NotRunning]

\* thread t enters one of the three methods on the root handle
Enter(t, op, payload) ==
    /\ thr[t].pc = "idle"
    /\ thr' = [thr EXCEPT ![t] = [NotRunning EXCEPT
                   !.pc = IF op = "UpdateAttributes" THEN "FromJson" ELSE "load",
                   !.op = op, !.payload = payload]]
    /\ UNCHANGED <<vars, cells, heap, zattrs, kvs, fut, snap, hist, call, ret>>

\* GetAttributes, was_updated: *attributes is read; was_updated compares the
\* address and is done, GetAttributes goes on to the object
LoadSlot(t) ==
    /\ thr[t].pc = "load"
    /\ thr' = [thr EXCEPT ![t] =
                  IF thr[t].op = "was_updated"
                  THEN [@ EXCEPT !.pc = "done", !.p = cells[vars[1].attributes],
                                 !.result = (vars[1].attributesAddress
                                                # cells[vars[1].attributes])]
                  ELSE [@ EXCEPT !.pc = "ToJson", !.p = cells[vars[1].attributes]]]
    /\ UNCHANGED <<vars, cells, heap, zattrs, kvs, fut, snap, hist, call, ret>>

\* GetAttributes: ToJson of the object the pointer read earlier leads to; the
\* method took no reference, so the object may have been released
ReadObjectAt(t) ==
    /\ thr[t].pc = "ToJson"
    /\ \E r \in (IF heap[thr[t].p] = NoObject THEN Released
                  ELSE {ToJson(heap[thr[t].p])}) :
          thr' = [thr EXCEPT ![t] = [@ EXCEPT !.pc = "done", !.result = r]]
    /\ UNCHANGED <<vars, cells, heap, zattrs, kvs, fut, snap, hist, call, ret>>

\* UpdateAttributes: FromJson, and on success make_shared of the new object
ParseAndAllocate(t) ==
    /\ thr[t].pc = "FromJson"
    /\ IF UpdateInstalls(thr[t].payload)
       THEN \E a \in FreeAddr :
              /\ heap' = [heap EXCEPT ![a] = UserAttributes(thr[t].payload)]
              /\ thr' = [thr EXCEPT ![t] = [@ EXCEPT !.pc = "assign", !.a = a]]
       ELSE /\ heap' = heap
            /\ thr' = [thr EXCEPT ![t] = [@ EXCEPT !.pc = "done",
                                                   !.result = "InvalidArgument"]]
    /\ UNCHANGED <<vars, cells, zattrs, kvs, fut, snap, hist, call, ret>>

\* the assignment to *attributes: the slot's old pointer is read ...
ReadOld(t) ==
    /\ thr[t].pc = "assign"
    /\ thr' = [thr EXCEPT ![t] = [@ EXCEPT !.pc = "store", !.p = cells[vars[1].attributes]]]
    /\ UNCHANGED <<vars, cells, heap, zattrs, kvs, fut, snap, hist, call, ret>>

\* ... the new pointer is stored ...
StoreNew(t) ==
    /\ thr[t].pc = "store"
    /\ cells' = [cells EXCEPT ![vars[1].attributes] = thr[t].a]
    /\ thr' = [thr EXCEPT ![t] = [@ EXCEPT !.pc = "release"]]
    /\ UNCHANGED <<vars, heap, zattrs, kvs, fut, snap, hist, call, ret>>

\* ... and the old object, which the slot alone owned, is released; if another
\* thread released it already, this is a second release of the same object
ReleaseOld(t) ==
    /\ thr[t].pc = "release"
    /\ heap' = [heap EXCEPT ![thr[t].p] = NoObject]
    /\ thr' = [thr EXCEPT ![t] = [@ EXCEPT
                  !.pc = "done",
                  !.result = IF heap[thr[t].p] = NoObject THEN "released twice" ELSE "ok"]]
    /\ UNCHANGED <<vars, cells, zattrs, kvs, fut, snap, hist, call, ret>>

\* the method returns
Leave(t) ==
    /\ thr[t].pc = "done"
    /\ thr' = [thr EXCEPT ![t] = NotRunning]
    /\ UNCHANGED <<vars, cells, heap, zattrs, kvs, fut, snap, hist, call, ret>>

NextRace ==
    \/ \E t \in Threads, op \in {"GetAttributes", "was_updated"} : Enter(t, op, EmptyObj)
    \/ \E t \in Threads, payload \in Payloads : Enter(t, "UpdateAttributes", payload)
    \/ \E t \in Threads : LoadSlot(t)
    \/ \E t \in Threads : ReadObjectAt(t)
    \/ \E t \in Threads : ParseAndAllocate(t)
    \/ \E t \in Threads : ReadOld(t)
    \/ \E t \in Threads : StoreNew(t)
    \/ \E t \in Threads : ReleaseOld(t)
    \/ \E t \in Threads : Leave(t)

RaceSpec == InitRace /\ [][NextRace]_vars_all

\* the side-documents of arrays that another program wrote
ForeignZattrs ==
    {EmptyObj,
     [long_name |-> Str("Velocity")],
     [dimension_names |-> Arr(<<"inline", "crossline">>)],
     [_ARRAY_DIMENSIONS |-> Arr(<<"crossline", "inline">>),
      dimension_names |-> Arr(<<"inline", "crossline">>)]}

\* create and open: the store does not exist yet, or holds an array that
\* another program wrote
InitCreate ==
    /\ vars = <<>>
    /\ cells = <<>>
    /\ heap = [a \in Addr |-> NoObject]
    /\ \/ /\ zattrs = NoValue
          /\ \E d \in Drivers, p \in Paths :
                kvs = [CreatedStore EXCEPT !.driver = d, !.path = p, !.zarray = NoValue]
       \/ /\ zattrs \in ForeignZattrs
          /\ \E d \in Drivers : kvs = [CreatedStore EXCEPT !.driver = d]
    /\ fut = NoFuture
    /\ thr = NoThreads
    /\ snap = NoValue
    /\ hist = <<>>
    /\ call = [op |-> "none", self |-> 0, descs |-> <<>>, payload |-> EmptyObj]
    /\ ret = Result("ok", NoValue, "", NoDesc)

CreateWith(schemas) == Idle /\ \E json_spec \in schemas : Create(json_spec)
OpenWith(supplied) == Idle /\ \E suppliedAttributes \in supplied : OpenVariable(suppliedAttributes)

\* the attributes a caller expects at open (Null: none given)
Expected == [dimension_names |-> Arr(<<"inline", "crossline">>), long_name |-> Str("Velocity")]
Supplied ==
    {Null,
     [attributes |-> Expected],
     [attributes |-> Put(Expected, "metadata",
                         [chunkGrid |-> Str("irregular"), attributes |-> [unit |-> Str("m")]])],
     [attributes |-> Put(Expected, "metadata", [attributes |-> [unit |-> Str("ft")]])],
     [attributes |-> Put(Expected, "metadata", [attributes |-> EmptyObj])],
     [attributes |-> Erase(Expected, "long_name")],
     [attributes |-> Put(Expected, "long_name", Str("Speed"))],
     [attributes |-> Put(Expected, "coordinates", Str("cdp_x cdp_y"))]}

NextCreate ==
    \/ CreateWith(Schemas(kvs))
    \/ \E ok \in BOOLEAN : StoreReady(ok)
    \/ Build
    \/ Publish
    \/ \E ok \in BOOLEAN : WriteDone(ok)
    \/ OpenWith(Supplied)
    \/ \E i \in 1..Len(vars), w \in BOOLEAN : PublishMetadata(i, w)
    \/ \E i \in 1..Len(vars) : GetReducedMetadata(i)
    \/ Bind
    \/ Drop

CreateSpec == InitCreate /\ [][NextCreate]_vars_all

----------------------------------------------------------------------------
(* Vocabulary of the properties.                                           *)

Max(a, b) == IF a >= b THEN a ELSE b
Min(a, b) == IF a <= b THEN a ELSE b

SliceCalled == call.op = "slice"
SnapshotSliceCalled == call.op = "VariableData.slice"
Receiver == vars[call.self]
AllStepOne(descs) == \A k \in 1..Len(descs) : descs[k].step = 1

\* the position of the dimension a label-form descriptor names, 0 if absent
DimOf(v, desc) == IF desc.label.kind = "label" THEN Resolve(dimensions(v), desc.label) ELSE 0
Present(v, desc) == DimOf(v, desc) # 0
Absent(v, desc) == desc.label.kind = "label" /\ DimOf(v, desc) = 0

\* no two descriptors name the same dimension of v
DistinctDims(v, descs) ==
    \A j, k \in 1..Len(descs) :
        (j # k /\ Present(v, descs[j]) /\ Present(v, descs[k]))
            => DimOf(v, descs[j]) # DimOf(v, descs[k])

\* the effective bounds of a descriptor on the domain [o, o+n) of its dimension
EffStart(v, desc) ==
    IF Present(v, desc) THEN Max(desc.start, dimensions(v)[DimOf(v, desc)].origin)
    ELSE desc.start
EffStop(v, desc) ==
    IF Present(v, desc)
    THEN Min(desc.stop, dimensions(v)[DimOf(v, desc)].origin + dimensions(v)[DimOf(v, desc)].shape)
    ELSE desc.stop

Interval(label, a, b) == [label |-> label, origin |-> a, shape |-> b - a]

\* every Variable the program can reach: its handles and a returned value
Reachable ==
    {vars[i] : i \in 1..Len(vars)} \cup (IF ReturnsVariable THEN {ret.value} ELSE {})

----------------------------------------------------------------------------
(* Slicing.                                                                *)

\* C1: a slice call (Variable::slice or VariableData::slice) in which some
\* descriptor has step # 1 returns InvalidArgument and changes nothing: the
\* handles, the snapshot, the attribute cells and the store stay as they were,
\* whatever the other descriptors are and whether or not the label exists.
C1_StepNotOne ==
    [][ (Idle /\ call'.op \in {"slice", "VariableData.slice"}
              /\ \E k \in 1..Len(call'.descs) : call'.descs[k].step # 1)
        => (/\ ret'.status = "InvalidArgument"
            /\ ret'.value = NoValue
            /\ vars' = vars /\ snap' = snap /\ cells' = cells
            /\ heap' = heap /\ zattrs' = zattrs) ]_vars_all

\* a two-descriptor Variable::slice whose second descriptor has step # 1 and
\* names no dimension of the domain was rejected
C1_Witness ==
    /\ SliceCalled
    /\ Len(call.descs) = 2
    /\ call.descs[1].step = 1
    /\ Present(Receiver, call.descs[1])
    /\ call.descs[2].step # 1
    /\ Absent(Receiver, call.descs[2])
    /\ ret.status = "InvalidArgument"

\* C2: for a label-form step-1 descriptor on a dimension with domain
\* [o, o+n), whatever o is, the effective bounds are max(start, o) and
\* min(stop, o+n): when they are ordered the slice succeeds with exactly that
\* interval, so a descriptor inside the domain is taken unchanged and
\* {label, o, o+n, 1} gives the same domain back.
C2_ClampAnyOrigin ==
    (SliceCalled /\ Len(call.descs) = 1 /\ call.descs[1].step = 1
        /\ Present(Receiver, call.descs[1])
        /\ EffStart(Receiver, call.descs[1]) <= EffStop(Receiver, call.descs[1]))
    => (/\ ret.status = "ok"
        /\ ret.value.store.domain[DimOf(Receiver, call.descs[1])] =
               Interval(call.descs[1].label.label,
                        EffStart(Receiver, call.descs[1]),
                        EffStop(Receiver, call.descs[1])))

\* C3: on a dimension with domain [0, n), a label-form step-1 descriptor
\* with start <= 0 and stop >= n succeeds and leaves the dimension [0, n);
\* and every successful slice leaves a dimension of origin 0 that a
\* descriptor names as [max(start, 0), min(stop, n)).
C3_ClampOriginZero ==
    SliceCalled =>
        /\ (Len(call.descs) = 1 /\ call.descs[1].step = 1
                /\ Present(Receiver, call.descs[1])
                /\ dimensions(Receiver)[DimOf(Receiver, call.descs[1])].origin = 0
                /\ call.descs[1].start <= 0
                /\ call.descs[1].stop >= dimensions(Receiver)[DimOf(Receiver, call.descs[1])].shape)
           => (/\ ret.status = "ok"
               /\ ret.value.store.domain[DimOf(Receiver, call.descs[1])] =
                      dimensions(Receiver)[DimOf(Receiver, call.descs[1])])
        /\ \A k \in 1..Len(call.descs) :
              (ret.status = "ok" /\ Present(Receiver, call.descs[k])
                  /\ dimensions(Receiver)[DimOf(Receiver, call.descs[k])].origin = 0)
              => ret.value.store.domain[DimOf(Receiver, call.descs[k])] =
                     Interval(call.descs[k].label.label,
                              Max(call.descs[k].start, 0),
                              Min(call.descs[k].stop,
                                  dimensions(Receiver)[DimOf(Receiver, call.descs[k])].shape))

\* a descriptor out of range on both sides was clamped to [0, n)
C3_Witness ==
    /\ SliceCalled
    /\ Len(call.descs) = 1
    /\ call.descs[1].step = 1
    /\ Present(Receiver, call.descs[1])
    /\ dimensions(Receiver)[DimOf(Receiver, call.descs[1])].origin = 0
    /\ dimensions(Receiver)[DimOf(Receiver, call.descs[1])].shape > 0
    /\ call.descs[1].start < 0
    /\ call.descs[1].stop > dimensions(Receiver)[DimOf(Receiver, call.descs[1])].shape
    /\ ret.status = "ok"

\* C4: with every descriptor of step 1 (label-form, no two on one
\* dimension), Variable::slice returns InvalidArgument exactly when some
\* descriptor has start > stop after clamping to its dimension's domain; equal
\* bounds are accepted; a failed call returns no Variable.
C4_InvertedIff ==
    (SliceCalled /\ AllStepOne(call.descs)
        /\ (\A k \in 1..Len(call.descs) : call.descs[k].label.kind = "label")
        /\ DistinctDims(Receiver, call.descs))
    => (/\ (ret.status = "InvalidArgument")
              <=> (\E k \in 1..Len(call.descs) :
                      EffStart(Receiver, call.descs[k]) > EffStop(Receiver, call.descs[k]))
        /\ ret.status # "ok" => ret.value = NoValue)

\* C5: a step-1 descriptor whose label is absent from the domain is a no-op
\* for Variable::slice, for any start and stop: the call succeeds and returns
\* a Variable equal to the receiver; VariableData::slice with such a
\* descriptor fails; and in a successful call mixing absent and present labels
\* the dimensions no present label names keep their domain.
C5_AbsentLabelNoOp ==
    /\ (SliceCalled /\ AllStepOne(call.descs)
            /\ \A k \in 1..Len(call.descs) : Absent(Receiver, call.descs[k]))
       => (ret.status = "ok" /\ ret.value = Receiver)
    /\ (SnapshotSliceCalled /\ AllStepOne(call.descs)
            /\ \E k \in 1..Len(call.descs) :
                  call.descs[k].label.kind = "label"
                  /\ Resolve(snap.data.domain, call.descs[k].label) = 0)
       => ret.status # "ok"
    /\ (SliceCalled /\ ret.status = "ok")
       => \A i \in 1..Len(dimensions(Receiver)) :
             (\A k \in 1..Len(call.descs) :
                 Resolve(dimensions(Receiver), call.descs[k].label) # i)
             => ret.value.store.domain[i] = dimensions(Receiver)[i]

\* C6: a successful Variable::slice with step-1 descriptors on distinct
\* present dimensions leaves each named dimension as the half-open interval
\* [start', stop') of its effective bounds, keeps every other dimension, and
\* keeps the name, the long name and the metadata.
C6_JointRestriction ==
    (SliceCalled /\ ret.status = "ok" /\ AllStepOne(call.descs)
        /\ (\A k \in 1..Len(call.descs) : Present(Receiver, call.descs[k]))
        /\ DistinctDims(Receiver, call.descs))
    => (/\ \A k \in 1..Len(call.descs) :
              ret.value.store.domain[DimOf(Receiver, call.descs[k])] =
                  Interval(call.descs[k].label.label,
                           EffStart(Receiver, call.descs[k]),
                           EffStop(Receiver, call.descs[k]))
        /\ \A i \in 1..Len(dimensions(Receiver)) :
              (\A k \in 1..Len(call.descs) : DimOf(Receiver, call.descs[k]) # i)
              => ret.value.store.domain[i] = dimensions(Receiver)[i]
        /\ ret.value.variableName = Receiver.variableName
        /\ ret.value.longName = Receiver.longName
        /\ ret.value.metadata = Receiver.metadata)

\* C20: when Variable::slice fails on inverted bounds, the error names a
\* descriptor of the call by its original label with its clamped start and
\* stop, and that descriptor is one whose clamped start exceeds its clamped
\* stop.
C20_ErrorNamesClamped ==
    (SliceCalled /\ ret.status = "InvalidArgument" /\ ret.msg = "order")
    => \E k \in 1..Len(call.descs) :
          /\ ret.err.label = call.descs[k].label
          /\ ret.err.start = EffStart(Receiver, call.descs[k])
          /\ ret.err.stop = EffStop(Receiver, call.descs[k])
          /\ EffStart(Receiver, call.descs[k]) > EffStop(Receiver, call.descs[k])

\* C24: Variable::slice treats an index-form descriptor like a label-form
\* one: for a position i with 0 <= i < rank, start and stop are clamped to
\* the domain of dimension i before the restriction, so that ordered clamped
\* bounds give exactly that interval and the storage engine never sees bounds
\* out of range; for a position outside [0, rank) the descriptor is ignored
\* and the call returns a Variable equal to the receiver.
C24_IndexFormClamped ==
    (SliceCalled /\ Len(call.descs) = 1 /\ call.descs[1].step = 1
        /\ call.descs[1].label.kind = "index")
    => LET d == call.descs[1]
           i == d.label.index + 1
       IN IF i \in 1..Len(dimensions(Receiver))
          THEN LET dim == dimensions(Receiver)[i]
                   a == Max(d.start, dim.origin)
                   b == Min(d.stop, dim.origin + dim.shape)
               IN /\ ret.status # "OutOfRange"
                  /\ a <= b => (/\ ret.status = "ok"
                                /\ ret.value.store.domain[i] = Interval(dim.label, a, b))
          ELSE ret.status = "ok" /\ ret.value = Receiver

----------------------------------------------------------------------------
(* Slicing a snapshot.                                                     *)

\* a VariableData::slice with step-1 descriptors on labels of the domain, on
\* the snapshot read from the Variable in the first handle
SnapshotSliceOfRead ==
    /\ SnapshotSliceCalled
    /\ snap.data.domain = dimensions(vars[1])
    /\ AllStepOne(call.descs)
    /\ \A k \in 1..Len(call.descs) : Present(vars[1], call.descs[k])

\* the dimension of the snapshot a descriptor names
SnapDim(desc) == snap.data.domain[DimOf(vars[1], desc)]

\* the bounds of a descriptor are ordered and lie in the domain of its dimension
Inside(desc) ==
    /\ SnapDim(desc).origin <= desc.start
    /\ desc.start <= desc.stop
    /\ desc.stop <= SnapDim(desc).origin + SnapDim(desc).shape

----------------------------------------------------------------------------
(* Create.                                                                 *)

CreateCalled == call.op = "Create"

\* the schema lacks one of the sections a create requires
Lacks(json_spec) ==
    \/ ~Contains(json_spec, "attributes")
    \/ ~Contains(json_spec["attributes"], "dimension_names")
    \/ ~Contains(json_spec, "metadata")
    \/ ~Contains(json_spec["metadata"], "dtype")

\* C11: Open in a create mode with a schema that lacks "attributes", or whose
\* attributes lack "dimension_names", or that lacks "metadata", or whose
\* metadata lacks "dtype", returns InvalidArgument, and the call neither asks
\* the storage engine for an array nor issues a write of the side-document.
C11_CreateValidation ==
    [][ (Idle /\ call'.op = "Create" /\ Lacks(call'.payload))
        => /\ ret'.status = "InvalidArgument"
           /\ fut' = fut
           /\ kvs' = kvs
           /\ zattrs' = zattrs ]_vars_all

\* a create whose schema has attributes with dimension names and metadata
\* without dtype was refused, and the store is as empty as before
C11_Witness ==
    /\ CreateCalled
    /\ Contains(call.payload, "attributes")
    /\ Contains(call.payload["attributes"], "dimension_names")
    /\ Contains(call.payload, "metadata")
    /\ ~Contains(call.payload["metadata"], "dtype")
    /\ ret.status = "InvalidArgument"
    /\ kvs.zarray = NoValue
    /\ zattrs = NoValue
    /\ fut.store = "none"

\* C12: the future a create returns resolves to a Variable only when the build
\* branch and the side-document write have both succeeded, and then to the
\* Variable the build branch made; once either branch has failed it holds a
\* failure and no Variable, whatever the other branch did, in whatever order
\* the two completed; until then it is pending.
C12_JoinBarrier ==
    (CreateCalled /\ fut.store # "none" /\ ~Lacks(call.payload))
    => /\ ret.status = "ok"
            => (fut.build = "ok" /\ fut.write = "ok" /\ ret.value = fut.variable)
       /\ (fut.build = "fail" \/ fut.write = "fail")
            => (ret.status \notin {"ok", "pending"} /\ ret.value = NoValue)
       /\ ret.status = "pending"
            => (fut.build # "fail" /\ fut.write # "fail"
                /\ ~(fut.build = "ok" /\ fut.write = "ok"))

\* the build branch made its Variable, the write failed, and the caller got
\* the failure
C12_Witness ==
    /\ CreateCalled
    /\ fut.build = "ok"
    /\ fut.variable # NoValue
    /\ fut.write = "fail"
    /\ ret.status = "Unavailable"
    /\ ret.value = NoValue

OpenCalled == call.op = "Open"
shape(v) == [i \in 1..Len(dimensions(v)) |-> dimensions(v)[i].shape]
labels(v) == [i \in 1..Len(dimensions(v)) |-> dimensions(v)[i].label]

\* an open without expected attributes, of the store as a successful create
\* left it
OpenAfterCreate ==
    /\ OpenCalled
    /\ is_null(call.payload)
    /\ fut.promise = "value"
    /\ zattrs = fut.output_json

\* C13: for every valid schema and every path, an open without expected
\* attributes that follows a successful create of the same store returns a
\* Variable with the name, the long name, the dimension names, the domain
\* labels and the domain shape of the Variable the create returned.
C13_CreateOpenRoundTrip ==
    OpenAfterCreate
    => /\ ret.status = "ok"
       /\ ret.value.variableName = fut.variable.variableName
       /\ ret.value.longName = fut.variable.longName
       /\ ret.value.metadata["dimension_names"] = fut.variable.metadata["dimension_names"]
       /\ labels(ret.value) = labels(fut.variable)
       /\ shape(ret.value) = shape(fut.variable)

\* the document at the object the side-document writes go to
Written == IF WriteObject(kvs) = ReadObject(kvs) THEN zattrs ELSE kvs.elsewhere

\* the nested metadata of an attributes document, empty if there is none
Nested(doc) == IF Contains(doc, "metadata") THEN doc["metadata"] ELSE EmptyObj

\* the value an attributes document gives a key of the side-document: the
\* hoisted one if the nested metadata has the key
Given(doc, k) == IF Contains(Nested(doc), k) THEN Nested(doc)[k] ELSE doc[k]

\* the keys of an attributes document that the side-document keeps
Kept(doc) ==
    {k \in ((DOMAIN doc) \ {"dimension_names", "variable_name", "metadata"})
            \cup ((DOMAIN Nested(doc)) \ {"chunkGrid"}) :
        /\ ~(k = "long_name" /\ Given(doc, k) = Str(""))
        /\ ~(k = "coordinates" /\ Given(doc, k) \in {Str(""), Arr(<<>>), Null, EmptyObj})}

Compared ==
    /\ Idle
    /\ call'.op = "Open"
    /\ ~is_null(call'.payload)
    /\ zattrs # NoValue
    /\ Contains(zattrs, "_ARRAY_DIMENSIONS") \/ Contains(zattrs, "dimension_names")
    /\ LabelsOk(kvs.zarray.domain,
                new_metadata(zattrs, "")["attributes"]["dimension_names"].arr)

\* the persisted side of the check, normalized
Persisted == searchableMetadata(new_metadata(zattrs, StrSplitBack(kvs.path)))

\* the places of the persisted document the check compares: the document
\* itself and, below a compared place, every value that is an object on both
\* sides; a place is the pair of the two subtrees
RECURSIVE Places(_, _)
Places(m, a) ==
    {<<m, a>>} \cup
    UNION {Places(m[k], a[k]) :
             k \in {x \in (DOMAIN m) \cap (DOMAIN a) : is_object(m[x]) /\ is_object(a[x])}}

\* a key of the persisted side that the supplied side lacks at some place
MissingAt(pl, k) == Contains(pl[1], k) /\ ~Contains(pl[2], k)

\* a key both sides have at some place, with unequal values that are not
\* both objects
UnequalAt(pl, k) ==
    /\ Contains(pl[1], k) /\ Contains(pl[2], k)
    /\ ~(is_object(pl[1][k]) /\ is_object(pl[2][k]))
    /\ pl[1][k] # pl[2][k]

\* C16: the conformance check of an open with expected attributes ends in
\* one of three ways: NotFound naming a key that the persisted document has
\* at a compared place and the supplied one lacks there; InvalidArgument
\* naming a key, and the two values, that both have there with unequal values
\* that are not both objects; or the open proceeds, which it does exactly
\* when no compared place has such a key.
C16_ConformanceOutcomes ==
    [][ Compared
        => LET places == Places(Persisted, correctedSuppliedAttrs(call'.payload))
               keys == {KeyOrder[i] : i \in 1..Len(KeyOrder)}
           IN /\ ret'.status \in {"ok", "NotFound", "InvalidArgument"}
              /\ ret'.status = "ok"
                    <=> \A pl \in places, k \in keys : ~MissingAt(pl, k) /\ ~UnequalAt(pl, k)
              /\ ret'.status = "NotFound"
                    => \E pl \in places : MissingAt(pl, ret'.msg)
              /\ ret'.status = "InvalidArgument"
                    => \E pl \in places :
                          /\ UnequalAt(pl, ret'.msg)
                          /\ ret'.err = [expected |-> pl[1][ret'.msg],
                                          got |-> pl[2][ret'.msg]] ]_vars_all

\* the persisted document has the nested attributes {unit: "m"} and the
\* caller expected {unit: "ft"}: the open failed naming "unit" and both values
C16_Witness ==
    /\ OpenCalled
    /\ ~is_null(call.payload)
    /\ zattrs # NoValue
    /\ Contains(zattrs, "attributes")
    /\ zattrs["attributes"] = [unit |-> Str("m")]
    /\ Contains(correctedSuppliedAttrs(call.payload)["attributes"], "attributes")
    /\ correctedSuppliedAttrs(call.payload)["attributes"]["attributes"] = [unit |-> Str("ft")]
    /\ ret.status = "InvalidArgument"
    /\ ret.msg = "unit"
    /\ ret.err = [expected |-> Str("m"), got |-> Str("ft")]

\* every key the document a has, at any depth, the document m has too, with
\* the same value
RECURSIVE Covers(_, _)
Covers(m, a) ==
    \A k \in DOMAIN a :
        /\ Contains(m, k)
        /\ IF is_object(a[k]) /\ is_object(m[k]) THEN Covers(m[k], a[k]) ELSE a[k] = m[k]

\* C22: when an open with expected attributes succeeds, the persisted and the
\* supplied document, both normalized, agree in both directions: the supplied
\* one has no key, at any depth, that the persisted one lacks, and no value
\* that differs from the persisted one.
C22_NoDivergence ==
    [][ (Compared /\ ret'.status = "ok")
        => /\ Covers(correctedSuppliedAttrs(call'.payload), Persisted)
           /\ Covers(Persisted, correctedSuppliedAttrs(call'.payload)) ]_vars_all

\* C27: a create whose build branch failed after the array was opened leaves
\* no side-document behind: no write of the side-document has been issued or
\* has completed, and there is no document at the object the writes go to.
C27_FailedCreateNoSideDocument ==
    (CreateCalled /\ fut.store = "ok" /\ fut.build = "fail")
    => /\ fut.write = "none"
       /\ Written = NoValue

\* the side-document has dimension names under one of the two keys
HasDimensionNames(doc) ==
    Contains(doc, "_ARRAY_DIMENSIONS") \/ Contains(doc, "dimension_names")

\* C17: an open of an existing array whose side-document has neither
\* "_ARRAY_DIMENSIONS" nor "dimension_names" fails with NotFound and returns
\* no Variable, with or without expected attributes; when the side-document
\* has "_ARRAY_DIMENSIONS" and its entries can label the domain, an open
\* without expected attributes succeeds, and the Variable of a successful
\* open has that list as "dimension_names" and its i-th entry as the label
\* of the i-th dimension.
C17_DimensionNames ==
    [][ (Idle /\ call'.op = "Open" /\ zattrs # NoValue)
        => /\ ~HasDimensionNames(zattrs)
                => (ret'.status = "NotFound" /\ ret'.value = NoValue /\ cells' = cells)
           /\ (Contains(zattrs, "_ARRAY_DIMENSIONS") /\ is_null(call'.payload)
                 /\ LabelsOk(kvs.zarray.domain, zattrs["_ARRAY_DIMENSIONS"].arr))
                => ret'.status = "ok"
           /\ (Contains(zattrs, "_ARRAY_DIMENSIONS") /\ ret'.status = "ok")
                => /\ ret'.value.metadata["dimension_names"] = zattrs["_ARRAY_DIMENSIONS"]
                   /\ ~Contains(ret'.value.metadata, "_ARRAY_DIMENSIONS")
                   /\ \A i \in 1..Len(zattrs["_ARRAY_DIMENSIONS"].arr) :
                         dimensions(ret'.value)[i].label = zattrs["_ARRAY_DIMENSIONS"].arr[i]
      ]_vars_all

\* an array with a side-document without dimension names was opened with
\* expected attributes, and the open failed with NotFound
C17_Witness ==
    /\ OpenCalled
    /\ ~is_null(call.payload)
    /\ zattrs = [long_name |-> Str("Velocity")]
    /\ ret.status = "NotFound"
    /\ ret.value = NoValue
    /\ cells = <<>>

----------------------------------------------------------------------------
(* The metadata accessors.                                                 *)

ReducedMetadataCalled == call.op = "getReducedMetadata"

\* C23: getReducedMetadata() returns the metadata tree stored at
\* construction, unchanged: the result has "long_name" exactly when the
\* Variable was given a long name that is a non-empty string, and then that
\* one; a nested "metadata" object in it has neither "attributes" nor
\* "statsV1"; and the call changes no Variable, no attribute cell and
\* nothing in the store.
C23_ReducedMetadata ==
    [][ (Idle /\ call'.op = "getReducedMetadata")
        => LET v == vars[call'.self]
           IN /\ ret'.status = "ok"
              /\ ret'.value = v.metadata
              /\ Contains(ret'.value, "long_name") <=> v.longName # ""
              /\ Contains(ret'.value, "long_name")
                    => ret'.value["long_name"] = Str(v.longName)
              /\ Contains(ret'.value, "metadata")
                    => /\ ~Contains(ret'.value["metadata"], "attributes")
                       /\ ~Contains(ret'.value["metadata"], "statsV1")
              /\ vars' = vars /\ cells' = cells /\ heap' = heap
              /\ zattrs' = zattrs /\ kvs' = kvs ]_vars_all

\* the Variable of a create with an empty long name and a nested metadata
\* with chunkGrid and attributes: its reduced metadata has no long name, and
\* its nested metadata has the chunkGrid only
C23_Witness ==
    /\ ReducedMetadataCalled
    /\ Receiver = fut.variable
    /\ {"long_name", "metadata"} \subseteq DOMAIN fut.json_var
    /\ fut.json_var["long_name"] = Str("")
    /\ DOMAIN fut.json_var["metadata"] = {"chunkGrid", "attributes"}
    /\ Receiver.longName = ""
    /\ ~Contains(ret.value, "long_name")
    /\ Contains(ret.value, "metadata")
    /\ DOMAIN ret.value["metadata"] = {"chunkGrid"}

\* C28: PublishMetadata preserves the side-document when nothing was
\* updated: while the persisted document is the one the create wrote, a
\* successful PublishMetadata through any Variable of the store writes a
\* document equal to it, with the same keys and values, so that publishing
\* again writes the same document once more; and no publish, successful or
\* not, changes a Variable's metadata or the attribute cells.
C28_PublishPreserves ==
    [][ (Idle /\ call'.op = "PublishMetadata" /\ fut.write = "ok"
              /\ Written = fut.output_json)
        => /\ vars' = vars /\ cells' = cells /\ heap' = heap
           /\ ret'.status = "ok" => Written' = Written ]_vars_all

----------------------------------------------------------------------------
(* Write.                                                                  *)

WriteCalled == call.op = "Write"

\* C18: Variable::Write of a snapshot whose element type differs from the
\* Variable's returns InvalidArgument and leaves the durable data as it was;
\* with equal element types the write is the engine's: the durable data
\* becomes the snapshot's when the engine succeeds; and no step other than a
\* successful Write (no Read, no slice, no change of a snapshot) changes the
\* durable data.
C18_WriteDtype ==
    [][ /\ (Idle /\ call'.op = "Write"
              /\ snap.data.dtype # vars[call'.self].store.dtype)
            => (ret'.status = "InvalidArgument" /\ kvs' = kvs)
        /\ (Idle /\ call'.op = "Write"
              /\ snap.data.dtype = vars[call'.self].store.dtype)
            => (ret'.status # "InvalidArgument"
                /\ kvs'.chunks = (IF ret'.status = "ok" THEN snap.data.value ELSE kvs.chunks))
        /\ kvs'.chunks # kvs.chunks
            => (Idle /\ call'.op = "Write" /\ ret'.status = "ok")
      ]_vars_all

\* a snapshot of another element type, with data that differ from the durable
\* ones, was written, the write was refused and the durable data still differ
C18_Witness ==
    /\ WriteCalled
    /\ snap # NoValue
    /\ snap.data.dtype # vars[call.self].store.dtype
    /\ snap.data.value # kvs.chunks
    /\ ret.status = "InvalidArgument"

----------------------------------------------------------------------------
(* Concurrent callers.                                                     *)

\* the values an update can have installed, and the initial one
Installable ==
    {ToJson(FromVariableJson(RootMetadata))} \cup {p \in Payloads : FromJsonOk(p)}

\* C19: whatever the interleaving of concurrent UpdateAttributes,
\* GetAttributes and was_updated calls on one cell, a GetAttributes call
\* returns a complete value that the initial construction or one single
\* update installed, and the slot always leads to one such value.
C19_ReadersSeeInstalled ==
    thr # NoThreads
    => /\ \A t \in Threads :
              (thr[t].op = "GetAttributes" /\ thr[t].pc = "done")
              => thr[t].result \in Installable
       /\ heap[cells[vars[1].attributes]] # NoObject
       /\ ToJson(heap[cells[vars[1].attributes]]) \in Installable

----------------------------------------------------------------------------
(* The attribute cell.                                                     *)

UpdateCalled == call.op = "UpdateAttributes"
PublishCalled == call.op = "PublishMetadata"
SameCell(v, w) == v.attributes = w.attributes

\* whether Variable::slice built its result with the five-argument constructor
Restricting(v, descs) ==
    sliceFold(v, descs, 0, [preconditionStatus |-> -1, picked |-> <<>>]).picked # <<>>

\* C7: UpdateAttributes with a payload that fails validation returns a
\* failure and leaves the slot untouched: the cells and the objects they hold
\* are as before, and GetAttributes() and was_updated() of every Variable
\* give what they gave before the call.
C7_InvalidUpdateKeepsSlot ==
    [][ (Idle /\ call'.op = "UpdateAttributes" /\ ~FromJsonOk(call'.payload))
        => (/\ ret'.status # "ok"
            /\ cells' = cells
            /\ heap' = heap
            /\ vars' = vars
            /\ \A i \in 1..Len(vars) :
                  /\ GetAttributes(vars[i])' = GetAttributes(vars[i])
                  /\ was_updated(vars[i])' = was_updated(vars[i])) ]_vars_all

\* an invalid update was refused through one of two Variables sharing a cell
\* that an earlier update had already changed
C7_Witness ==
    /\ UpdateCalled
    /\ ~FromJsonOk(call.payload)
    /\ ret.status # "ok"
    /\ Len(vars) = 2
    /\ SameCell(vars[1], vars[2])
    /\ hist[vars[1].store.open].updated
    /\ was_updated(vars[1])
    /\ GetAttributes(vars[2]) = hist[vars[1].store.open].last

\* C8: before any update of its cell was_updated() is false for every
\* Variable; a successful UpdateAttributes makes was_updated() true for every
\* Variable that exists at the update and shares the cell; and a Variable
\* constructed from the cell afterwards (by Open, or by a restricting slice)
\* has was_updated() false.
C8_UpdateDetected ==
    /\ [](\A v \in Reachable : ~hist[v.store.open].updated => ~was_updated(v))
    /\ []((ret.status = "ok"
              /\ (call.op = "Open"
                     \/ (SliceCalled /\ Restricting(Receiver, call.descs))))
          => ~was_updated(ret.value))
    /\ [][ (Idle /\ call'.op = "UpdateAttributes" /\ ret'.status = "ok")
           => \A i \in 1..Len(vars) :
                 SameCell(vars[i], vars[call'.self]) => was_updated(vars[i])' ]_vars_all

\* C9: every Variable derived from one Open result by copies and slices
\* holds the cell of that Open, and GetAttributes() through any of them gives
\* the value most recently installed in it.
C9_SharedCell ==
    \A v \in Reachable :
        /\ v.attributes = v.store.open
        /\ GetAttributes(v) = hist[v.store.open].last

\* an update made through one Variable is read through a restricted slice of
\* it held in another handle
C9_Witness ==
    /\ UpdateCalled
    /\ ret.status = "ok"
    /\ Len(vars) = 2
    /\ call.self = 1
    /\ SameCell(vars[1], vars[2])
    /\ dimensions(vars[2]) # dimensions(vars[1])
    /\ GetAttributes(vars[2]) = call.payload
    /\ GetAttributes(vars[2]) # ToJson(FromVariableJson(RootMetadata))

\* C10: a successful PublishMetadata on an instance whose cell was updated
\* leaves that instance with was_updated() false and every other Variable
\* reporting what it reported before; a failed publish leaves every Variable
\* as it was.
C10_PublishResynchronizes ==
    [][ (Idle /\ call'.op = "PublishMetadata")
        => IF ret'.status = "ok"
           THEN \A j \in 1..Len(vars) :
                   IF j = call'.self
                   THEN hist[vars[j].store.open].updated => ~(was_updated(vars[j])')
                   ELSE was_updated(vars[j])' = was_updated(vars[j])
           ELSE vars' = vars /\ zattrs' = zattrs ]_vars_all

\* C25: change detection is monotone over any number of updates: for the
\* Variable the open returned, once a successful UpdateAttributes has
\* replaced the content of its cell, was_updated() is true after every
\* further successful update of the cell, whatever addresses the released
\* objects had and the later ones take.
C25_MonotoneDetection ==
    [][ (/\ Idle
         /\ call'.op = "UpdateAttributes"
         /\ ret'.status = "ok"
         /\ SameCell(vars[1], vars[call'.self])
         /\ hist[vars[1].store.open].updated)
        => was_updated(vars[1])' ]_vars_all

\* C26: every Variable derived from another has a well-defined recorded
\* identity: a copy and an identity slice answer was_updated() as their
\* source does, a restricting slice records the current content of the slot
\* and answers false, and a Variable made by the converting constructor
\* answers as its source does at the conversion.
C26_DerivedIdentity ==
    /\ (call.op = "Copy" /\ ret.status = "ok")
          => was_updated(ret.value) = was_updated(Receiver)
    /\ (SliceCalled /\ ret.status = "ok")
          => IF Restricting(Receiver, call.descs)
             THEN ~was_updated(ret.value)
             ELSE was_updated(ret.value) = was_updated(Receiver)
    /\ (call.op = "Convert" /\ ret.status = "ok")
          => was_updated(ret.value) = was_updated(Receiver)

====
